---- MODULE Spec2Model ----
(***************************************************************************)
(* State-machine model of StarLinkAlert.py as started by its main block:   *)
(*   - thread 1: monitor_starlink (started at lines 218-220), which calls  *)
(*     dismiss_alarm directly and spawns show_visual_alarm threads;        *)
(*   - thread 2: monitor_starlink_threaded (started at lines 354-356),     *)
(*     which puts callbacks on gui_queue;                                  *)
(*   - the main (GUI) thread: check_gui_queue ticks and button callbacks;  *)
(*   - the alarm threads spawned by thread 1 and their Tk main loops;      *)
(*   - the dish that both monitor threads ping.                            *)
(* Threads interleave between the reads and writes of the globals          *)
(* alarm_state and alarm_window.                                           *)
(***************************************************************************)
EXTENDS Integers, Sequences, FiniteSets, TLC

\* ---------------------------------------------------------------- bounds
MaxWindows == 2
MaxCmds == 2
MaxAlarmThreads == 1
MaxChanges == 1

\* ------------------------------------------------------------- variables
VARIABLES
    alarm_state,        \* global alarm_state (line 31)
    alarm_window,       \* global alarm_window (line 30): NoWindow or a window
    windows,            \* windows created and not yet destroyed
    gui_queue,          \* gui_queue (line 228): callbacks not yet taken
    enqueued,           \* history: every callback put, in put order
    applied,            \* history: every callback taken and called, in order
    pc1, previous_state1, current_state1,      \* monitor_starlink
    pc2, previous_state2, current_state2,      \* monitor_starlink_threaded
    rep2,               \* transition reported on the console in this cycle
    first2,             \* TRUE until thread 2 has made its first ping
    lastTrans2,         \* history: the last transition thread 2 reported
    alertAtTrans2,      \* history: it was OfflineToOnline, reported while the
                        \* alert was raised or a raise was in the queue
    user_dismissed,     \* history: it was OnlineToOffline, and the user has
                        \* dismissed an alert since
    offline_again,      \* history: and, the dismiss done, thread 2 has read
                        \* Offline again since
    scen2,              \* history: how many cycles of ScenarioProbes thread 2
                        \* has made, each on a drained queue; OffScenario
                        \* once its cycles are not that scenario
    dish,               \* the dish at DISHY_IP as check_dish_ping finds it:
                        \* "online", "offline", or "unfollowed" when any
                        \* reading is possible
    changes,            \* how often the dish has changed while followed
    reporters,          \* history: the monitor threads that have reported
                        \* the state the dish is in since its last change
    alarmThreads,       \* number of show_visual_alarm threads at each step
    guiPc, guiCtx       \* main thread: position, and what it is running

shared == <<alarm_state, alarm_window, windows>>
qvars == <<gui_queue, enqueued, applied>>
m1vars == <<pc1, previous_state1, current_state1>>
m2vars == <<pc2, previous_state2, current_state2, rep2, first2>>
hist2 == <<lastTrans2, alertAtTrans2, user_dismissed, offline_again, scen2>>
device == <<dish, changes>>
env == <<dish, changes, reporters>>
guivars == <<guiPc, guiCtx>>
vars == <<alarm_state, alarm_window, windows, gui_queue, enqueued, applied,
          pc1, previous_state1, current_state1,
          pc2, previous_state2, current_state2, rep2, first2,
          lastTrans2, alertAtTrans2, user_dismissed, offline_again, scen2,
          dish, changes, reporters,
          alarmThreads, guiPc, guiCtx>>

\* --------------------------------------------------------------- helpers
NoWindow == [kind |-> "None", id |-> 0]

\* dish_online_previous_state = False before the first cycle
InitialPreviousState == FALSE

\* the readings of the scenario Offline, Offline, Online, Offline
ScenarioProbes == <<FALSE, FALSE, TRUE, FALSE>>
OffScenario == Len(ScenarioProbes) + 1

\* mutant: every Offline reading is reported, not only a change to Offline
TransitionOnEveryOffline(prev, cur) ==
    IF cur /\ ~prev THEN "OfflineToOnline"
    ELSE IF ~cur THEN "OnlineToOffline"
    ELSE "none"

\* The nested ifs of the loop body: which branch prints a report
Transition(prev, cur) ==
    IF cur /\ ~prev THEN "OfflineToOnline"
    ELSE IF ~cur /\ prev THEN "OnlineToOffline"
    ELSE "none"

\* mutant: a last-in first-out queue
QueuePutFront(q, c) == <<c>> \o q
\* mutant: get_nowait returns the callback and leaves it in the queue
QueueRestKeeps(q) == q
\* mutant: a put discards the callbacks already waiting
QueuePutReplaces(q, c) == <<c>>

\* queue.Queue is first-in first-out
QueuePut(q, c) == Append(q, c)
QueueGet(q) == Head(q)
QueueRest(q) == Tail(q)

\* mutant: the show functions do not test alarm_state
ShowGuardMissing(state) == FALSE

\* `if alarm_state: return` at the top of both show functions
ShowGuard(state) == state

\* a new widget object: an identity no live window and no reference uses
FreeIds == {n \in 1..MaxWindows :
              /\ \A w \in windows : w.id # n
              /\ alarm_window.id # n}
NewWindow(kind) ==
    [kind |-> kind, id |-> CHOOSE n \in FreeIds : \A m \in FreeIds : n <= m]

\* the main thread has not ended: daemon threads are still alive
Running == guiPc # "dead"

\* alarm_window.destroy() raises: the global is None by now, or it is a Tk
\* root whose application has already been destroyed
DestroyRaises ==
    \/ alarm_window = NoWindow
    \/ alarm_window.kind = "Tk" /\ alarm_window \notin windows

Cmd(cb, msg) == [id |-> Len(enqueued) + 1, cb |-> cb, msg |-> msg]

ShowPending == \E i \in 1..Len(gui_queue) : gui_queue[i].cb = "show"

AlarmLive == alarmThreads["check"] + alarmThreads["set"] + alarmThreads["create"]
MoveAlarm(from, to) ==
    [alarmThreads EXCEPT ![from] = @ - 1, ![to] = @ + 1]

\* check_dish_ping(DISHY_IP): True exactly when the dish answers the ping
Ping == IF dish = "unfollowed" THEN BOOLEAN ELSE {dish = "online"}

\* history: monitor thread t reports the state the dish is in
Reported(t) == IF dish = "unfollowed" THEN {} ELSE reporters \cup {t}

\* ------------------------------------------------------------------ Init
Init ==
    /\ alarm_state = FALSE
    /\ alarm_window = NoWindow
    /\ windows = {}
    /\ gui_queue = <<>>
    /\ enqueued = <<>>
    /\ applied = <<>>
    /\ pc1 = "probe" /\ previous_state1 = InitialPreviousState
    /\ current_state1 = FALSE
    /\ pc2 = "probe" /\ previous_state2 = InitialPreviousState
    /\ current_state2 = FALSE
    /\ rep2 = "none" /\ first2 = TRUE
    /\ lastTrans2 = "none" /\ alertAtTrans2 = FALSE /\ user_dismissed = FALSE
    /\ offline_again = FALSE /\ scen2 = 0
    /\ dish \in {"online", "offline"} /\ changes = 0 /\ reporters = {}
    /\ alarmThreads = [p \in {"check", "set", "create"} |-> 0]
    /\ guiPc = "start" /\ guiCtx = "first"

\* ------------------------------------------------------------ the dish
\* the dish becomes reachable or unreachable; it is followed through
\* MaxChanges changes, after which it may change any number of times
\* between two pings
DishChange ==
    /\ Running /\ dish # "unfollowed"
    /\ IF changes < MaxChanges
       THEN /\ dish' = IF dish = "online" THEN "offline" ELSE "online"
            /\ changes' = changes + 1
       ELSE dish' = "unfollowed" /\ changes' = changes
    /\ reporters' = {}
    /\ UNCHANGED <<shared, qvars, m1vars, m2vars, hist2, alarmThreads,
                   guivars>>

\* ------------------------------------- thread 2: monitor_starlink_threaded
\* The steps of a thread that touch no shared data (the ping, the console
\* report, the notification calls, the assignment of the previous state, the
\* sleep) are taken together with the step that follows or precedes them.

\* send_email_alert(...) and send_pushbullet_alert(...): the file calls them
\* and does not define them. A sink that contains its own failures returns;
\* the call raises when the sink lets a failure out, and as the file stands
\* (NameError).
NotifyOutcome == {"returns", "raises"}

\* `except Exception` (lines 343-346, and 201-204 in thread 1): the
\* notification calls of the handler return, or one raises again so that
\* only `finally` runs and the thread ends
AfterFailure ==
    {IF o = "returns" THEN "hcheck" ELSE "exited" : o \in NotifyOutcome}

\* dish_online_previous_state = dish_online_current_state; time.sleep
EndCycle2 ==
    /\ previous_state2' = current_state2
    /\ rep2' = "none"
    /\ pc2' = "probe"

\* history: the cycle with this reading continues the scenario when it is
\* the scenario's next reading and every callback put so far has been applied
ScenarioStep(ping) ==
    IF /\ scen2 < Len(ScenarioProbes)
       /\ ping = ScenarioProbes[scen2 + 1]
       /\ gui_queue = <<>>
       /\ guiPc \in {"start", "drain", "idle"}
    THEN scen2 + 1
    ELSE OffScenario

\* a cycle whose ping equals the previous state: no branch body runs
M2ProbeSame ==
    /\ Running /\ pc2 = "probe"
    /\ \E ping \in Ping :
        /\ Transition(previous_state2, ping) = "none"
        /\ current_state2' = ping
        /\ previous_state2' = ping
        /\ offline_again' =
               (offline_again \/ (user_dismissed /\ ~alarm_state /\ ~ping))
        /\ scen2' = ScenarioStep(ping)
    /\ rep2' = "none"
    /\ first2' = FALSE
    /\ UNCHANGED env
    /\ UNCHANGED <<shared, qvars, m1vars, pc2, lastTrans2, alertAtTrans2,
                   user_dismissed, alarmThreads, guivars>>

\* what a cycle whose ping differs reports and remembers
Report2(ping) ==
    /\ Transition(previous_state2, ping) # "none"
    /\ current_state2' = ping
    /\ rep2' = Transition(previous_state2, ping)
    /\ lastTrans2' = rep2'
    /\ alertAtTrans2' = (ping /\ (alarm_state \/ ShowPending))
    /\ user_dismissed' = FALSE
    /\ offline_again' = FALSE
    /\ reporters' = Reported(2)
    /\ first2' = FALSE

\* a cycle whose ping differs: report (lines 318, 329); send_email_alert
\* returns (lines 319, 330)
M2ProbeChanged ==
    /\ Running /\ pc2 = "probe"
    /\ \E ping \in Ping : Report2(ping) /\ scen2' = ScenarioStep(ping)
    /\ "returns" \in NotifyOutcome
    /\ pc2' = "push"
    /\ UNCHANGED device
    /\ UNCHANGED <<shared, qvars, m1vars, previous_state2, alarmThreads,
                   guivars>>

\* a cycle whose ping differs: report, and send_email_alert raises: the
\* rest of the branch body and of the loop is skipped
M2ProbeNotifyRaises ==
    /\ Running /\ pc2 = "probe"
    /\ \E ping \in Ping : Report2(ping)
    /\ scen2' = OffScenario
    /\ "raises" \in NotifyOutcome
    /\ pc2' \in AfterFailure
    /\ UNCHANGED device
    /\ UNCHANGED <<shared, qvars, m1vars, previous_state2, alarmThreads,
                   guivars>>

\* send_pushbullet_alert returns (lines 320, 331)
M2Push ==
    /\ Running /\ pc2 = "push"
    /\ "returns" \in NotifyOutcome
    /\ pc2' = "check"
    /\ UNCHANGED env
    /\ UNCHANGED <<shared, qvars, m1vars, previous_state2, current_state2,
                   rep2, first2, hist2, alarmThreads, guivars>>

\* send_pushbullet_alert raises
M2PushRaises ==
    /\ Running /\ pc2 = "push"
    /\ "raises" \in NotifyOutcome
    /\ pc2' \in AfterFailure
    /\ scen2' = OffScenario
    /\ UNCHANGED env
    /\ UNCHANGED <<shared, qvars, m1vars, previous_state2, current_state2,
                   rep2, first2, lastTrans2, alertAtTrans2, user_dismissed,
                   offline_again, alarmThreads, guivars>>

\* `if alarm_state:` (line 321) / `if not alarm_state:` (line 332)
M2Check ==
    /\ Running /\ pc2 = "check"
    /\ IF alarm_state = current_state2
       THEN pc2' = "put" /\ UNCHANGED <<previous_state2, rep2>>
       ELSE EndCycle2
    /\ UNCHANGED env
    /\ UNCHANGED <<shared, qvars, m1vars, current_state2, first2, hist2,
                   alarmThreads, guivars>>

\* gui_queue.put(dismiss_alarm_thread_safe) (line 322) /
\* gui_queue.put(lambda: show_visual_alarm_thread_safe(...)) (line 333)
M2Put ==
    /\ Running /\ pc2 = "put"
    /\ Len(enqueued) < MaxCmds
    /\ LET c == IF current_state2 THEN Cmd("dismiss", "-")
                                  ELSE Cmd("show", "offline")
       IN /\ gui_queue' = QueuePut(gui_queue, c)
          /\ enqueued' = Append(enqueued, c)
    /\ EndCycle2
    /\ UNCHANGED env
    /\ UNCHANGED <<shared, applied, m1vars, current_state2, first2, hist2,
                   alarmThreads, guivars>>

\* `if not alarm_state:` (line 347)
M2HandlerCheck ==
    /\ Running /\ pc2 = "hcheck"
    /\ pc2' = IF ~alarm_state THEN "hput" ELSE "exited"
    /\ UNCHANGED env
    /\ UNCHANGED <<shared, qvars, m1vars, previous_state2, current_state2,
                   rep2, first2, hist2, alarmThreads, guivars>>

\* gui_queue.put(lambda: show...("MONITOR ERROR")) (line 348); finally
M2HandlerPut ==
    /\ Running /\ pc2 = "hput"
    /\ Len(enqueued) < MaxCmds
    /\ LET c == Cmd("show", "error")
       IN /\ gui_queue' = QueuePut(gui_queue, c)
          /\ enqueued' = Append(enqueued, c)
    /\ pc2' = "exited"
    /\ UNCHANGED env
    /\ UNCHANGED <<shared, applied, m1vars, previous_state2, current_state2,
                   rep2, first2, hist2, alarmThreads, guivars>>

\* KeyboardInterrupt is raised inside the loop: `except KeyboardInterrupt`
\* (lines 340-342) and `finally` (lines 349-350) only display a message
M2Stop ==
    /\ Running /\ pc2 \in {"probe", "push", "check", "put"}
    /\ pc2' = "stopped"
    /\ UNCHANGED env
    /\ UNCHANGED <<shared, qvars, m1vars, previous_state2, current_state2,
                   rep2, first2, hist2, alarmThreads, guivars>>

Monitor2Next ==
    \/ M2ProbeSame \/ M2ProbeChanged \/ M2ProbeNotifyRaises
    \/ M2Push \/ M2PushRaises \/ M2Check
    \/ M2Put \/ M2HandlerCheck \/ M2HandlerPut

\* ------------------------------------------- shared bodies of the callbacks
\* `if alarm_window:` at the top of both dismiss functions
AfterDismissTest ==
    IF alarm_window # NoWindow THEN "dismiss_destroy" ELSE "dismiss_state"

\* alarm_window.destroy() on the window the global names now
DestroyWindow ==
    /\ ~DestroyRaises
    /\ windows' = windows \ {alarm_window}
    /\ UNCHANGED <<alarm_state, alarm_window>>

\* alarm_window = None
ClearWindow ==
    /\ alarm_window' = NoWindow
    /\ UNCHANGED <<alarm_state, windows>>

\* alarm_state = False
ClearState ==
    /\ alarm_state' = FALSE
    /\ UNCHANGED <<alarm_window, windows>>

\* alarm_state = True
SetState ==
    /\ alarm_state' = TRUE
    /\ UNCHANGED <<alarm_window, windows>>

\* alarm_window = tk.Tk() / tk.Toplevel(root)
CreateWindow(kind) ==
    /\ FreeIds # {}
    /\ alarm_window' = NewWindow(kind)
    /\ windows' = windows \cup {NewWindow(kind)}
    /\ UNCHANGED alarm_state

\* ------------------------------------------------ main thread (GUI context)
\* where the main thread goes when a callback returns / raises
GuiReturn == IF guiCtx = "click" THEN "idle" ELSE "drain"
GuiRaise == IF guiCtx = "first" THEN "dead" ELSE "idle"

\* history: a step of a dismiss the user asked for
NoteUser ==
    user_dismissed' = IF guiCtx = "click"
                      THEN lastTrans2 = "OnlineToOffline"
                      ELSE user_dismissed

\* line 359: the direct first call of check_gui_queue
GuiStart ==
    /\ guiPc = "start"
    /\ guiPc' = "drain" /\ guiCtx' = "first"
    /\ UNCHANGED env
    /\ UNCHANGED <<shared, qvars, m1vars, m2vars, hist2, alarmThreads>>

\* root.after(100, check_gui_queue) fires inside root.mainloop()
GuiTick ==
    /\ guiPc = "idle"
    /\ guiPc' = "drain" /\ guiCtx' = "tick"
    /\ UNCHANGED env
    /\ UNCHANGED <<shared, qvars, m1vars, m2vars, hist2, alarmThreads>>

\* callback = gui_queue.get_nowait(); callback() up to its first test
GuiGet ==
    /\ guiPc = "drain" /\ gui_queue # <<>>
    /\ LET c == QueueGet(gui_queue)
       IN /\ gui_queue' = QueueRest(gui_queue)
          /\ applied' = Append(applied, c)
          /\ guiPc' = IF c.cb = "show"
                      THEN (IF ShowGuard(alarm_state) THEN "drain"
                                                      ELSE "show_set")
                      ELSE AfterDismissTest
    /\ UNCHANGED env
    /\ UNCHANGED <<shared, enqueued, guiCtx, m1vars, m2vars, hist2,
                   alarmThreads>>

\* queue.Empty: the tick ends; finally reschedules it
GuiEmpty ==
    /\ guiPc = "drain" /\ gui_queue = <<>>
    /\ guiPc' = "idle" /\ guiCtx' = "tick"
    /\ UNCHANGED env
    /\ UNCHANGED <<shared, qvars, m1vars, m2vars, hist2, alarmThreads>>

\* show_visual_alarm_thread_safe: alarm_state = True (line 247)
GuiShowSet ==
    /\ guiPc = "show_set"
    /\ SetState
    /\ guiPc' = "show_create"
    /\ UNCHANGED env
    /\ UNCHANGED <<qvars, guiCtx, m1vars, m2vars, hist2, alarmThreads>>

\* alarm_window = tk.Toplevel(root) and the widget set-up (lines 250-284)
GuiShowCreate ==
    /\ guiPc = "show_create"
    /\ CreateWindow("Toplevel")
    /\ guiPc' = GuiReturn
    /\ UNCHANGED env
    /\ UNCHANGED <<qvars, guiCtx, m1vars, m2vars, hist2, alarmThreads>>

\* tk.Toplevel(root) raises TclError: the exception leaves check_gui_queue
\* through its finally; the direct first call ends the main thread
GuiShowCreateRaises ==
    /\ guiPc = "show_create"
    /\ guiPc' = GuiRaise
    /\ UNCHANGED env
    /\ UNCHANGED <<shared, qvars, guiCtx, m1vars, m2vars, hist2,
                   alarmThreads>>

\* dismiss_alarm_thread_safe: alarm_window.destroy() (line 289)
GuiDismissDestroy ==
    /\ guiPc = "dismiss_destroy"
    /\ DestroyWindow
    /\ guiPc' = "dismiss_clear"
    /\ NoteUser
    /\ UNCHANGED env
    /\ UNCHANGED <<qvars, guiCtx, m1vars, m2vars, lastTrans2, alertAtTrans2,
                   offline_again, scen2, alarmThreads>>

GuiDismissDestroyRaises ==
    /\ guiPc = "dismiss_destroy"
    /\ DestroyRaises
    /\ guiPc' = GuiRaise
    /\ UNCHANGED env
    /\ UNCHANGED <<shared, qvars, guiCtx, m1vars, m2vars, hist2,
                   alarmThreads>>

\* alarm_window = None (line 290)
GuiDismissClear ==
    /\ guiPc = "dismiss_clear"
    /\ ClearWindow
    /\ guiPc' = "dismiss_state"
    /\ NoteUser
    /\ UNCHANGED env
    /\ UNCHANGED <<qvars, guiCtx, m1vars, m2vars, lastTrans2, alertAtTrans2,
                   offline_again, scen2, alarmThreads>>

\* alarm_state = False; display_on_screen (lines 291-292)
GuiDismissState ==
    /\ guiPc = "dismiss_state"
    /\ ClearState
    /\ guiPc' = GuiReturn
    /\ NoteUser
    /\ UNCHANGED env
    /\ UNCHANGED <<qvars, guiCtx, m1vars, m2vars, lastTrans2, alertAtTrans2,
                   offline_again, scen2, alarmThreads>>

\* the user presses DISMISS ALARM (or closes) on a Toplevel alert window:
\* dismiss_alarm_thread_safe runs as an event of root.mainloop()
GuiClick ==
    /\ guiPc = "idle"
    /\ \E w \in windows : w.kind = "Toplevel"
    /\ guiCtx' = "click"
    /\ guiPc' = AfterDismissTest
    /\ user_dismissed' = (lastTrans2 = "OnlineToOffline")
    /\ offline_again' = FALSE
    /\ UNCHANGED env
    /\ UNCHANGED <<shared, qvars, m1vars, m2vars, lastTrans2, alertAtTrans2,
                   scen2, alarmThreads>>

GuiNext ==
    \/ GuiStart \/ GuiTick \/ GuiGet \/ GuiEmpty \/ GuiShowSet
    \/ GuiShowCreate \/ GuiShowCreateRaises \/ GuiDismissDestroy
    \/ GuiDismissDestroyRaises \/ GuiDismissClear \/ GuiDismissState
    \/ GuiClick

\* --------------------------------------------- thread 1: monitor_starlink
\* The steps of a thread that touch no shared data (the ping, the console
\* report, the notification calls, the assignment of the previous state, the
\* sleep) are taken together with the step that follows them.

\* a cycle whose ping equals the previous state: no branch body runs
M1ProbeSame ==
    /\ Running /\ pc1 = "probe"
    /\ \E ping \in Ping :
        /\ Transition(previous_state1, ping) = "none"
        /\ current_state1' = ping
        /\ previous_state1' = ping
    /\ UNCHANGED env
    /\ UNCHANGED <<shared, qvars, pc1, m2vars, hist2, alarmThreads, guivars>>

\* a cycle whose ping differs: report; send_email_alert and
\* send_pushbullet_alert return (lines 155-157, 172-174)
M1ProbeChanged ==
    /\ Running /\ pc1 = "probe"
    /\ \E ping \in Ping :
        /\ Transition(previous_state1, ping) # "none"
        /\ current_state1' = ping
    /\ "returns" \in NotifyOutcome
    /\ pc1' = "check"
    /\ reporters' = Reported(1) /\ UNCHANGED device
    /\ UNCHANGED <<shared, qvars, previous_state1, m2vars, hist2,
                   alarmThreads, guivars>>

\* the loop is left: its two locals are not read again
LoopLeft1 == previous_state1' = FALSE /\ current_state1' = FALSE

\* a cycle whose ping differs, and a notification call raises
M1ProbeNotifyRaises ==
    /\ Running /\ pc1 = "probe"
    /\ \E ping \in Ping : Transition(previous_state1, ping) # "none"
    /\ "raises" \in NotifyOutcome
    /\ pc1' \in AfterFailure
    /\ LoopLeft1
    /\ reporters' = Reported(1) /\ UNCHANGED device
    /\ UNCHANGED <<shared, qvars, m2vars, hist2, alarmThreads, guivars>>

\* online branch: `if alarm_state: dismiss_alarm()` (lines 159-160)
M1CheckOnline ==
    /\ Running /\ pc1 = "check" /\ current_state1
    /\ IF alarm_state
       THEN pc1' = "dismiss_test" /\ UNCHANGED previous_state1
       ELSE pc1' = "probe" /\ previous_state1' = current_state1
    /\ UNCHANGED env
    /\ UNCHANGED <<shared, qvars, current_state1, m2vars, hist2,
                   alarmThreads, guivars>>

\* offline branch: `if not alarm_state:` start a show_visual_alarm thread
\* (lines 188-191)
M1CheckOffline ==
    /\ Running /\ pc1 = "check" /\ ~current_state1
    /\ IF ~alarm_state
       THEN /\ AlarmLive < MaxAlarmThreads
            /\ alarmThreads' = [alarmThreads EXCEPT !["check"] = @ + 1]
       ELSE UNCHANGED alarmThreads
    /\ pc1' = "probe" /\ previous_state1' = current_state1
    /\ UNCHANGED env
    /\ UNCHANGED <<shared, qvars, current_state1, m2vars, hist2, guivars>>

\* dismiss_alarm: `if alarm_window:` (line 46)
M1DismissTest ==
    /\ Running /\ pc1 = "dismiss_test"
    /\ pc1' = AfterDismissTest
    /\ UNCHANGED env
    /\ UNCHANGED <<shared, qvars, previous_state1, current_state1, m2vars,
                   hist2, alarmThreads, guivars>>

\* dismiss_alarm: alarm_window.destroy() (line 47)
M1DismissDestroy ==
    /\ Running /\ pc1 = "dismiss_destroy"
    /\ DestroyWindow
    /\ pc1' = "dismiss_clear"
    /\ UNCHANGED env
    /\ UNCHANGED <<qvars, previous_state1, current_state1, m2vars, hist2,
                   alarmThreads, guivars>>

\* the destroy raises inside the loop: `except Exception`
M1DismissDestroyRaises ==
    /\ Running /\ pc1 = "dismiss_destroy"
    /\ DestroyRaises
    /\ pc1' \in AfterFailure
    /\ LoopLeft1
    /\ UNCHANGED env
    /\ UNCHANGED <<shared, qvars, m2vars, hist2, alarmThreads, guivars>>

\* dismiss_alarm: alarm_window = None (line 48)
M1DismissClear ==
    /\ Running /\ pc1 = "dismiss_clear"
    /\ ClearWindow
    /\ pc1' = "dismiss_state"
    /\ UNCHANGED env
    /\ UNCHANGED <<qvars, previous_state1, current_state1, m2vars, hist2,
                   alarmThreads, guivars>>

\* dismiss_alarm: alarm_state = False (line 49); the cycle ends
M1DismissState ==
    /\ Running /\ pc1 = "dismiss_state"
    /\ ClearState
    /\ pc1' = "probe" /\ previous_state1' = current_state1
    /\ UNCHANGED env
    /\ UNCHANGED <<qvars, current_state1, m2vars, hist2, alarmThreads,
                   guivars>>

\* `if not alarm_state:` start a show_visual_alarm thread (lines 206-209);
\* finally: alarm_window.quit() only stops a main loop (lines 213-214)
M1HandlerCheck ==
    /\ Running /\ pc1 = "hcheck"
    /\ IF ~alarm_state
       THEN /\ AlarmLive < MaxAlarmThreads
            /\ alarmThreads' = [alarmThreads EXCEPT !["check"] = @ + 1]
       ELSE UNCHANGED alarmThreads
    /\ pc1' = "exited"
    /\ UNCHANGED env
    /\ UNCHANGED <<shared, qvars, previous_state1, current_state1, m2vars,
                   hist2, guivars>>

Monitor1Next ==
    \/ M1ProbeSame \/ M1ProbeChanged \/ M1ProbeNotifyRaises
    \/ M1CheckOnline \/ M1CheckOffline \/ M1DismissTest
    \/ M1DismissDestroy \/ M1DismissDestroyRaises \/ M1DismissClear
    \/ M1DismissState \/ M1HandlerCheck

\* ------------------------------- alarm threads running show_visual_alarm
\* `if alarm_state: return` (lines 65-66)
AlarmCheck ==
    /\ Running /\ alarmThreads["check"] > 0
    /\ alarmThreads' = IF ShowGuard(alarm_state)
                       THEN [alarmThreads EXCEPT !["check"] = @ - 1]
                       ELSE MoveAlarm("check", "set")
    /\ UNCHANGED env
    /\ UNCHANGED <<shared, qvars, m1vars, m2vars, hist2, guivars>>

\* alarm_state = True (line 68)
AlarmSet ==
    /\ Running /\ alarmThreads["set"] > 0
    /\ SetState
    /\ alarmThreads' = MoveAlarm("set", "create")
    /\ UNCHANGED env
    /\ UNCHANGED <<qvars, m1vars, m2vars, hist2, guivars>>

\* alarm_window = tk.Tk() and the widget set-up; then alarm_window.mainloop()
\* blocks in this thread (lines 72-113)
AlarmCreate ==
    /\ Running /\ alarmThreads["create"] > 0
    /\ CreateWindow("Tk")
    /\ alarmThreads' = [alarmThreads EXCEPT !["create"] = @ - 1]
    /\ UNCHANGED env
    /\ UNCHANGED <<qvars, m1vars, m2vars, hist2, guivars>>

\* tk.Tk() raises TclError: the thread ends
AlarmCreateRaises ==
    /\ Running /\ alarmThreads["create"] > 0
    /\ alarmThreads' = [alarmThreads EXCEPT !["create"] = @ - 1]
    /\ UNCHANGED env
    /\ UNCHANGED <<shared, qvars, m1vars, m2vars, hist2, guivars>>

\* the user presses DISMISS ALARM (or closes) on a Tk alert window:
\* dismiss_alarm (lines 43-50) runs, as one step, in the main loop of the
\* thread that made the window; an exception of destroy() ends the callback
AlarmClick ==
    /\ Running
    /\ \E w \in windows : w.kind = "Tk"
    /\ IF alarm_window = NoWindow
       THEN ClearState
       ELSE IF DestroyRaises
            THEN UNCHANGED shared
            ELSE /\ windows' = windows \ {alarm_window}
                 /\ alarm_window' = NoWindow
                 /\ alarm_state' = FALSE
    /\ user_dismissed' = (lastTrans2 = "OnlineToOffline")
    /\ offline_again' = FALSE
    /\ UNCHANGED env
    /\ UNCHANGED <<qvars, m1vars, m2vars, lastTrans2, alertAtTrans2,
                   scen2, alarmThreads, guivars>>

AlarmNext ==
    \/ AlarmCheck \/ AlarmSet \/ AlarmCreate \/ AlarmCreateRaises
    \/ AlarmClick

\* ---------------------------------------------------------- specifications
\* the whole program as started by the main block
Next ==
    DishChange \/ Monitor1Next \/ Monitor2Next \/ AlarmNext \/ GuiNext
Spec == Init /\ [][Next]_vars

\* the queue-based design alone: thread 1 is never scheduled, so no alarm
\* thread exists and no destroy() can meet a window another thread removed
NextThreaded ==
    \/ DishChange \/ Monitor2Next
    \/ GuiStart \/ GuiTick \/ GuiGet \/ GuiEmpty \/ GuiShowSet
    \/ GuiShowCreate \/ GuiShowCreateRaises \/ GuiDismissDestroy
    \/ GuiDismissClear \/ GuiDismissState \/ GuiClick
SpecThreaded == Init /\ [][NextThreaded]_vars

\* the queue-based design with the scheduling of the main thread: a thread
\* that can take a step takes it, and inside root.mainloop() the tick that
\* root.after scheduled fires even though user events keep arriving
SpecFair ==
    /\ Init /\ [][NextThreaded]_vars
    /\ WF_vars(GuiStart) /\ SF_vars(GuiTick)
    /\ WF_vars(GuiGet) /\ WF_vars(GuiEmpty)
    /\ WF_vars(GuiShowSet)
    /\ WF_vars(GuiShowCreate \/ GuiShowCreateRaises)
    /\ WF_vars(GuiDismissDestroy) /\ WF_vars(GuiDismissClear)
    /\ WF_vars(GuiDismissState)

\* the queue-based design, and the user stops the monitor loop of thread 2
NextStop == NextThreaded \/ M2Stop
SpecStop == Init /\ [][NextStop]_vars

\* -------------------------------------------------------------- properties
\* thread 2 has finished its cycle and the main thread has drained the queue
Drained == pc2 = "probe" /\ gui_queue = <<>> /\ guiPc = "idle"

\* the main thread is about to apply, or is applying, a dismiss callback
TakesDismiss ==
    \/ guiPc = "drain" /\ gui_queue # <<>> /\ Head(gui_queue).cb = "dismiss"
    \/ guiPc = "dismiss_state"

\* the main thread is about to apply a show callback
TakesShow ==
    guiPc = "drain" /\ gui_queue # <<>> /\ Head(gui_queue).cb = "show"

\* C1: at every moment at most one alert window has been created and not
\* yet destroyed, whatever the interleaving of the threads of the program.
C1_AtMostOneAlertWindow == Cardinality(windows) <= 1

\* C2: a cycle of the monitor loop reports a transition exactly when its
\* reading differs from the remembered previous reading, which is Offline
\* before the first cycle (a first Offline reading reports nothing, a first
\* Online reading reports OfflineToOnline); when a cycle has ended the
\* remembered previous reading is that cycle's reading.
C2_TransitionIffChanged ==
    [][ /\ (pc2 = "probe" /\ Monitor2Next) =>
            /\ (rep2' # "none") <=> (current_state2' # previous_state2)
            /\ (rep2' = "OfflineToOnline") <=>
                   (current_state2' /\ ~previous_state2)
            /\ (rep2' = "OnlineToOffline") <=>
                   (~current_state2' /\ previous_state2)
            /\ first2 => (rep2' = IF current_state2' THEN "OfflineToOnline"
                                                     ELSE "none")
        /\ (pc2' = "probe" => previous_state2' = current_state2')
      ]_vars
C2_Witness ==
    /\ pc2 = "check" /\ rep2 = "OnlineToOffline"
    /\ previous_state2 /\ ~current_state2

\* C3: a failure inside a poll cycle never ends monitoring: the monitor loop
\* of thread 2 is never left, so a later probe is always still performed.
C3_MonitoringSurvivesFailure == pc2 # "exited"

\* C4: no step of a monitor thread changes alarm_state, the alarm_window
\* reference or the set of alert windows; monitors only put commands.
C4_MonitorsNeverWriteAlert ==
    [][(Monitor1Next \/ Monitor2Next) =>
          UNCHANGED <<alarm_state, alarm_window, windows>>]_vars

\* C5: the callbacks applied so far are, in order, the first callbacks that
\* were put on the queue: no callback is applied before one put earlier.
C5_AppliedInEnqueueOrder ==
    /\ Len(applied) <= Len(enqueued)
    /\ \A i \in 1..Len(applied) : applied[i] = enqueued[i]
C5_Witness ==
    /\ Len(applied) = 2
    /\ applied[1].cb = "show" /\ applied[2].cb = "dismiss"

\* C6: every callback ever put is either still in the queue or has been
\* applied, and is so exactly once, also after a callback raised in a tick.
Occurrences(seq, c) == Cardinality({i \in 1..Len(seq) : seq[i] = c})
C6_AppliedExactlyOnce ==
    \A n \in 1..Len(enqueued) :
        Occurrences(applied, enqueued[n])
            + Occurrences(gui_queue, enqueued[n]) = 1
C6_Witness ==
    /\ Len(applied) = 2 /\ gui_queue = <<>> /\ guiPc = "idle"
    /\ applied[1].cb = "show" /\ applied[2].cb = "show"
    /\ alarm_state /\ alarm_window = NoWindow

\* C7: when the last transition thread 2 detected is OnlineToOffline, the
\* user has not dismissed since, the cycle is over and the queue is drained,
\* the alert is raised.
C7_OfflineRaisesAlert ==
    (Drained /\ lastTrans2 = "OnlineToOffline" /\ ~user_dismissed)
        => alarm_state

\* C8: when the last transition thread 2 detected is OfflineToOnline, it was
\* detected while the alert was raised or a raise was pending, the cycle is
\* over and the queue is drained, the alert is idle and no window is left.
C8_RecoveryLowersAlert ==
    (Drained /\ lastTrans2 = "OfflineToOnline" /\ alertAtTrans2)
        => (~alarm_state /\ alarm_window = NoWindow /\ windows = {})

\* C9: a step of thread 2 in a cycle whose reading is Offline after a
\* previous Offline reading puts nothing on the queue and leaves alarm_state
\* as it is; in particular so while the alert is raised.
C9_NoReRaiseOnRepeatedOffline ==
    [][(Monitor2Next /\ ~previous_state2 /\ ~current_state2') =>
          (gui_queue' = gui_queue /\ alarm_state' = alarm_state)]_vars
C9_Witness ==
    /\ alarm_state /\ alarm_window # NoWindow
    /\ lastTrans2 = "OnlineToOffline"
    /\ pc2 = "probe" /\ ~previous_state2 /\ ~current_state2
    /\ gui_queue = <<>> /\ Len(enqueued) = 1

\* C10: a step that applies a dismiss callback while the alert is idle
\* (alarm_state false, no window) changes neither alarm_state nor any
\* window; taking a show callback while alarm_state is true ends the
\* callback at once and changes neither alarm_state nor any window.
C10_IdempotentCommands ==
    [][ /\ (GuiNext /\ TakesDismiss /\ ~alarm_state
                   /\ alarm_window = NoWindow) =>
              (UNCHANGED shared
                 /\ guiPc' \in {"dismiss_state", "drain", "idle"})
        /\ (GuiNext /\ TakesShow /\ alarm_state) =>
              (UNCHANGED shared /\ guiPc' = "drain")
      ]_vars
C10_Witness ==
    /\ Len(applied) = 2
    /\ applied[1].cb = "show" /\ applied[2].cb = "show"
    /\ guiPc = "drain" /\ alarm_state /\ Cardinality(windows) = 1

\* C11: when the user has dismissed the alert raised for the last
\* OnlineToOffline transition and thread 2 has since read Offline again, then
\* once the cycle is over and the queue drained the alert is raised again,
\* with one window.
C11_ReRaisedAfterUserDismiss ==
    (Drained /\ user_dismissed /\ offline_again)
        => (alarm_state /\ Cardinality(windows) = 1)

C12_Witness ==
    /\ Drained /\ scen2 = 4 /\ ~user_dismissed
    /\ alarm_state /\ Cardinality(windows) = 1

\* C13: when the monitor loop of thread 2 is left through a failure, the
\* step that ends the thread either puts a show callback with the diagnostic
\* message, or found the alert raised already and puts nothing; this also
\* when the failure came from a notification call.
C13_FailureRaisesAlert ==
    [][(pc2 # "exited" /\ pc2' = "exited") =>
          \/ alarm_state /\ gui_queue' = gui_queue
          \/ /\ Len(gui_queue') = Len(gui_queue) + 1
             /\ SubSeq(gui_queue', 1, Len(gui_queue)) = gui_queue
             /\ gui_queue'[Len(gui_queue')].cb = "show"
             /\ gui_queue'[Len(gui_queue')].msg = "error"
      ]_vars

\* C14: in a cycle of thread 2 that reports a transition, the step that
\* calls send_email_alert is followed by the call of send_pushbullet_alert
\* whatever the outcome of the email call, and the step that calls
\* send_pushbullet_alert is followed by the test of alarm_state that decides
\* on the show or dismiss callback, whatever the outcome of the push call.
C14_SinkFailureIsLocal ==
    [][Monitor2Next =>
          /\ (pc2 = "probe" /\ rep2' # "none") => pc2' = "push"
          /\ (pc2 = "push") => pc2' = "check"
      ]_vars

\* C15: while the dish is followed and has changed, at most one monitor
\* thread of the program has reported (on the console and to each sink) the
\* state the dish changed to.
C15_ChangeReportedOnce ==
    (dish # "unfollowed" /\ changes >= 1) => Cardinality(reporters) <= 1

\* C16: the step in which thread 2 handles the user's stop while the alert
\* is raised and its window is on screen leaves alarm_state false and no
\* window, or at least puts the dismiss callback that will lower the alert.
C16_StopLowersAlert ==
    [][(pc2 # "stopped" /\ pc2' = "stopped"
           /\ alarm_state /\ alarm_window \in windows) =>
          \/ ~alarm_state' /\ alarm_window' = NoWindow /\ windows' = {}
          \/ /\ Len(gui_queue') = Len(gui_queue) + 1
             /\ gui_queue'[Len(gui_queue')].cb = "dismiss"
      ]_vars

\* no show or dismiss is in the middle of executing, in any thread
AtRest ==
    /\ guiPc \in {"idle", "drain"}
    /\ alarmThreads["set"] = 0 /\ alarmThreads["create"] = 0
    /\ pc1 \notin {"dismiss_destroy", "dismiss_clear", "dismiss_state"}

\* C17: whenever no show or dismiss is in the middle of executing,
\* alarm_state is true exactly when alarm_window names a window and exactly
\* when an alert window exists, also after a show whose window creation
\* failed once alarm_state was set.
C17_StateMatchesWindow ==
    AtRest => /\ alarm_state <=> (alarm_window # NoWindow)
              /\ alarm_state <=> (windows # {})

\* C18: under fair scheduling of the main thread every callback put on the
\* queue is eventually taken from it and called, also when a callback called
\* before it has raised: once n callbacks have been put, n are eventually
\* applied.
C18_EveryCommandApplied ==
    \A n \in 1..MaxCmds : (Len(enqueued) >= n) ~> (Len(applied) >= n)

\* C19: every step of monitor_starlink_threaded, the one that handles a
\* KeyboardInterrupt included, leaves alarm_state and
\* alarm_window (and the windows, and the callbacks applied) unchanged; it
\* either leaves the queue as it is or appends one show or dismiss callback
\* behind the callbacks already waiting.
C19_ThreadedMonitorOnlyPuts ==
    [][(Monitor2Next \/ M2Stop) =>
          /\ alarm_state' = alarm_state /\ alarm_window' = alarm_window
          /\ windows' = windows /\ applied' = applied
          /\ \/ gui_queue' = gui_queue
             \/ /\ Len(gui_queue') = Len(gui_queue) + 1
                /\ SubSeq(gui_queue', 1, Len(gui_queue)) = gui_queue
                /\ gui_queue'[Len(gui_queue')].cb \in {"show", "dismiss"}
      ]_vars
C19_Witness ==
    /\ pc2 = "probe" /\ Len(gui_queue) = 2 /\ applied = <<>>
    /\ ~alarm_state /\ alarm_window = NoWindow
    /\ gui_queue[2].cb = "show"

====
